---- MODULE Spec2Model ----
(***************************************************************************)
(* httpbox: fallible HTTP handlers, the central error translator           *)
(* (Handler.ServeHTTP / handleError), JSON response writing and middleware *)
(* composition, modelled as a state machine over request slots.            *)
(***************************************************************************)
EXTENDS Integers, Sequences, FiniteSets, TLC

(* ------------------------------ bounds -------------------------------- *)

\* longest middleware list passed to WithMiddlewares
MaxMw == 2

(* ------------------------- program constants -------------------------- *)

StatusOK == 200
StatusBadRequest == 400
StatusNotFound == 404
StatusInternalServerError == 500

ContentTypeJSON == "application/json"
UnexpectedMsg == "Unexpected error occurred"
FailedMsg == "failed to serialize error details"

(* --------------------------- value domains ---------------------------- *)

\* request slots: slot 1 is the request under study, slot 2 a second request
Reqs == {1, 2}

\* a nil `any` / a nil `error`
Nil == "<nil>"
\* a details value encoding/json cannot marshal (make(chan int))
Chan == "<chan int>"

Codes == {StatusNotFound, StatusInternalServerError}
Messages == {"not found", "boom"}
DetailsValues == {Nil, "invalid input", Chan}
\* plain (non-Typed) errors, identified by their text
PlainErrs == {"boom", "db down"}
Causes == {Nil, "db down"}

\* middlewares a list may hold: the access logger and a pass-through layer
MwKinds == {"access", "tag"}

\* *Error values (the struct Error)
ErrorValues ==
    [Code : Codes, Message : Messages, Details : DetailsValues,
     Err : Causes, Log : BOOLEAN]

ZeroError ==
    [Code |-> 0, Message |-> "", Details |-> Nil, Err |-> Nil, Log |-> FALSE]

\* what a handler may return as its `error`:
\*   nil, errors.New(text), a *Error, or fmt.Errorf("...: %w", *Error)
NoFailure == [kind |-> "nil", text |-> "", typed |-> ZeroError]
Failures ==
    {NoFailure}
    \cup {[kind |-> "plain", text |-> t, typed |-> ZeroError] : t \in PlainErrs}
    \cup {[kind |-> k, text |-> (IF k = "typed" THEN e.Message ELSE "ctx: " \o e.Message),
           typed |-> e] : k \in {"typed", "wrapped"}, e \in ErrorValues}

\* one request's circumstances: what the innermost handler writes before it
\* returns, what it returns, and whether the response sink accepts writes
Requests ==
    [writes : {"none", "ok"}, fail : Failures, sinkOK : BOOLEAN]

Off == [writes |-> "none", fail |-> NoFailure, sinkOK |-> TRUE]

\* lists of at most n middlewares
RECURSIVE MwLists(_)
MwLists(n) ==
    IF n = 0 THEN {<<>>}
    ELSE LET shorter == MwLists(n - 1)
         IN shorter \cup {Append(l, k) : l \in {s \in shorter : Len(s) = n - 1},
                                           k \in MwKinds}

(* ---------------------------- the Error type -------------------------- *)

\* NewError(code, message): the struct before any option is applied
NewError(code, message) ==
    [Code |-> code, Message |-> message, Details |-> Nil, Err |-> Nil, Log |-> FALSE]

WithDetails(e, details) == [e EXCEPT !.Details = details]
WithInternalError(e, internalErr) == [e EXCEPT !.Err = internalErr]
WithLog(e) == [e EXCEPT !.Log = TRUE]

(* ------------------------- JSON encoding of Error ---------------------- *)

\* json.Marshal fails on a channel; Err and Log are tagged json:"-"
Marshalable(e) == e.Details # Chan

\* mutant: Details without omitempty, a nil Details is written as a key
JSONObjectNoOmit(e) ==
    [code |-> e.Code, message |-> e.Message, details |-> e.Details]

\* mutant: Err without json:"-", the cause is serialized
JSONObjectWithCause(e) ==
    IF e.Details = Nil
    THEN [code |-> e.Code, message |-> e.Message, error |-> e.Err]
    ELSE [code |-> e.Code, message |-> e.Message, details |-> e.Details,
          error |-> e.Err]

\* the JSON object encoding/json produces for an Error, by its struct tags
JSONObject(e) ==
    IF e.Details = Nil
    THEN [code |-> e.Code, message |-> e.Message]
    ELSE [code |-> e.Code, message |-> e.Message, details |-> e.Details]

\* the bytes Encoder.Encode writes for it (the object and a newline)
JSONText(e) ==
    "{\"code\":" \o ToString(e.Code) \o ",\"message\":\"" \o e.Message \o "\""
    \o (IF e.Details = Nil THEN "" ELSE ",\"details\":\"" \o e.Details \o "\"")
    \o "}\n"

JSONChunk(e) == [json |-> JSONObject(e), text |-> JSONText(e)]

\* the body the handler of the tests writes: w.Write([]byte(`"ok"`))
OkChunk == [json |-> [raw |-> TRUE], text |-> "\"ok\""]

(* --------------------------- the response sink ------------------------- *)

\* http.ResponseWriter: the header map (its Content-Type), the status sent
\* (0: none yet), the Content-Type sent with it, the body chunks accepted,
\* and the operations issued on it
FreshSink == [header |-> "", status |-> 0, sent |-> "", body |-> <<>>, ops |-> <<>>]

Op(op, who, code) == [op |-> op, who |-> who, code |-> code]

SinkHeaderSet(s, ct, who) ==
    [s EXCEPT !.header = ct, !.ops = Append(@, Op("Header.Set", who, 0))]

\* the first WriteHeader fixes status and headers; later ones are ignored
SinkCommit(s, code) ==
    IF s.status = 0 THEN [s EXCEPT !.status = code, !.sent = s.header] ELSE s

SinkWriteHeader(s, code, who) ==
    [SinkCommit(s, code) EXCEPT !.ops = Append(@, Op("WriteHeader", who, code))]

\* Write sends an implicit 200 when no status was sent; a sink that accepts
\* the write appends the chunk and reports its length, a broken one reports
\* 0 bytes and an error
SinkWrite(s, chunk, ok, who) ==
    LET s1 == SinkCommit(s, StatusOK)
        s2 == [s1 EXCEPT !.ops = Append(@, Op("Write", who, 0))]
    IN IF ok
       THEN [sink |-> [s2 EXCEPT !.body = Append(@, [who |-> who, json |-> chunk.json,
                                                      text |-> chunk.text])],
             n |-> Len(chunk.text), err |-> Nil]
       ELSE [sink |-> s2, n |-> 0, err |-> "write: broken pipe"]

(* ------------------------------ state --------------------------------- *)

VARIABLES
    phase,      \* "setup" | "composed" | "serving"
    mws,        \* the list given to WithMiddlewares
    handler,    \* the composed handler: its layers, outermost first
    pc,         \* per request: where ServeHTTP is
    req,        \* per request: its circumstances (a member of Requests)
    sink,       \* per request: the response sink
    arws,       \* per request: the accessResponseWriters in scope, outermost first
    depth,      \* per request: how many layers have been entered
    trace,      \* per request: layer events in order
    ret,        \* per request: the error returned to ServeHTTP
    httpErr,    \* per request: *Error handleError works on
    werr,       \* per request: the error of the last WriteJSON
    log         \* per request: slog records emitted while serving it

serveVars == <<phase, mws, handler, pc, req, sink, arws, depth, trace, ret,
               httpErr, werr, log>>

\* an accessResponseWriter on its own, driven call by call, next to a sink
\* of the same kind that is given the same calls directly
VARIABLES
    wrapper,    \* the accessResponseWriter's fields: statusCode, bodySize
    under,      \* the http.ResponseWriter the wrapper embeds
    bare,       \* the sink that is called directly
    calls,      \* the calls made so far
    got,        \* what the last call on the wrapper returned
    want        \* what the same call on the bare sink returned

wrapperVars == <<wrapper, under, bare, calls, got, want>>

\* one call of ReadJSON[T], ReadXML[T] or ReadBytes
VARIABLES
    rd,          \* the io.Reader: the document it holds, whether Read fails
    rcall,       \* the function called and its type argument T
    rpc,         \* "idle" | "start" | "decoded" | "returned"
    v,           \* the local `var v T`
    validations, \* the receivers Validate was invoked on, in order
    rout         \* what the call returned: value and error

codecVars == <<rd, rcall, rpc, v, validations, rout>>

\* one call of NewError(code, message, opts...)
VARIABLES
    nargs,       \* the arguments: code, message, the options in order
    npc,         \* "idle" | "start" | "loop" | "returned"
    newErr,      \* the *Error being built (the local err)
    napplied     \* how many options the loop has applied

newErrorVars == <<nargs, npc, newErr, napplied>>

\* one call of NewRequiredQueryParam(r, name)
VARIABLES
    query,       \* r.URL.Query(): the values given for each name, in order
    pname,       \* the name asked for
    ppc,         \* "idle" | "start" | "returned"
    pres         \* what the call returned: Param and error

paramVars == <<query, pname, ppc, pres>>

\* one call of WriteJSON, WriteXML, WriteBytes or WriteFromReader
VARIABLES
    rec,         \* the response sink the call writes on
    wargs,       \* the function and its arguments, and whether the sink
                 \* accepts writes
    wpc,         \* "idle" | "start" | "returned"
    wret         \* the error the call returned

writeVars == <<rec, wargs, wpc, wret>>

\* a second handler value, composed from the same h by other calls
VARIABLES
    twin,        \* its layers, outermost first
    parts        \* how it was composed: not yet, left as h, or by two
                 \* calls that split the list after its k-th middleware

composeVars == <<twin, parts>>

libVars == <<wrapperVars, codecVars, newErrorVars, paramVars, writeVars,
             composeVars>>

vars == <<serveVars, libVars>>

(* ----------------------- middleware composition ----------------------- *)

\* a layer of a composed handler: the middleware and its place in the list
Layer(kind, idx) == [kind |-> kind, idx |-> idx]

\* middlewares[i](h): the returned handler runs the middleware around h
Wrap(m, h) == <<m>> \o h

\* mutant: the loop runs upwards, the last middleware ends up outermost
RECURSIVE applyLoopUp(_, _, _)
applyLoopUp(h, middlewares, i) ==
    IF i > Len(middlewares) THEN h
    ELSE applyLoopUp(Wrap(Layer(middlewares[i], i), h), middlewares, i + 1)

applyMiddlewaresUp(h, middlewares) == applyLoopUp(h, middlewares, 1)

\* for i := len(middlewares) - 1; i >= 0; i-- { h = middlewares[i](h) }
RECURSIVE applyLoop(_, _, _)
applyLoop(h, middlewares, i) ==
    IF i < 1 THEN h
    ELSE applyLoop(Wrap(Layer(middlewares[i], i), h), middlewares, i - 1)

\* mutant: the middlewares are put around the innermost handler, the
\* layers h already has are dropped
applyMiddlewaresAnew(h, middlewares) == applyLoop(<<>>, middlewares, Len(middlewares))

applyMiddlewares(h, middlewares) == applyLoop(h, middlewares, Len(middlewares))

(* ------------------------ accessResponseWriter ------------------------- *)

newAccessResponseWriter == [statusCode |-> StatusOK, bodySize |-> 0]

\* arw.statusCode = statusCode (the call is then forwarded)
ArwWriteHeader(arw, statusCode) == [arw EXCEPT !.statusCode = statusCode]

\* arw.bodySize += size, size being what the wrapped writer reported
ArwWrite(arw, size) == [arw EXCEPT !.bodySize = @ + size]

(* ------------------------------- slog ---------------------------------- *)

LogRecord(src, msg, code, details, error, original) ==
    [src |-> src, msg |-> msg, code |-> code, details |-> details,
     error |-> error, original_error |-> original, status |-> 0, body_size |-> 0]

\* mutant: the record of a failed write leaves the original cause out
SerializeFailureRecordNoCause(e, err) ==
    LogRecord("serialize", FailedMsg, 0, Nil, err, Nil)

\* slog.Error(failedMsg, "error", err, "original_error", httpErr.Err)
SerializeFailureRecord(e, err) ==
    LogRecord("serialize", FailedMsg, 0, Nil, err, e.Err)

\* slog.Error(httpErr.Message, "code", .., "details", .., "error", httpErr.Err)
ErrorRecord(e) ==
    LogRecord("error", e.Message, e.Code, e.Details, e.Err, Nil)

\* slog.Info("Access", reqGroup, resGroup)
AccessRecord(arw) ==
    [LogRecord("access", "Access", 0, Nil, Nil, Nil)
        EXCEPT !.status = arw.statusCode, !.body_size = arw.bodySize]

(* ------------------------------ WriteJSON ------------------------------ *)

\* the error json.Marshal gives for a channel
MarshalError == "json: unsupported type: chan int"

\* Encoder.Encode marshals first and writes only when that succeeded; it
\* returns the marshal error or the error of the write
Encode(s, e, ok, who) ==
    IF ~Marshalable(e)
    THEN [sink |-> s, err |-> MarshalError]
    ELSE LET w == SinkWrite(s, JSONChunk(e), ok, who)
         IN [sink |-> w.sink, err |-> w.err]

\* header, then status, then the encoded body
WriteJSON(s, code, e, ok, who) ==
    LET s1 == SinkHeaderSet(s, ContentTypeJSON, who)
        s2 == SinkWriteHeader(s1, code, who)
    IN Encode(s2, e, ok, who)

(* ---------------------------- errors.As -------------------------------- *)

\* errors.As(err, &httpErr): err is a *Error or wraps one
IsTyped(f) == f.kind \in {"typed", "wrapped"}

\* mutant: the catch-all takes the failure's own text as its message
SynthesizedLeaky(err) ==
    WithLog(WithInternalError(
        NewError(StatusInternalServerError, err.text), err.text))

\* mutant: the catch-all is a client error and is not marked for logging
SynthesizedBadRequest(err) ==
    WithInternalError(NewError(StatusBadRequest, UnexpectedMsg), err.text)

\* the catch-all handleError builds for any other error
Synthesized(err) ==
    WithLog(WithInternalError(
        NewError(StatusInternalServerError, UnexpectedMsg), err.text))

(* ------------------------------ actions -------------------------------- *)

\* the handler value whose ServeHTTP is called for request r: the second
\* request goes to the second handler value once there is one
Chain(r) == IF parts.how # "none" /\ r = 2 THEN twin ELSE handler

\* h.WithMiddlewares(middlewares...)
WithMiddlewares(middlewares) ==
    /\ phase = "setup"
    /\ mws' = middlewares
    /\ handler' = applyMiddlewares(handler, middlewares)
    /\ phase' = "composed"
    /\ UNCHANGED <<pc, req, sink, arws, depth, trace, ret, httpErr, werr, log>>
    /\ UNCHANGED libVars

\* the handler is handed to the server; requests are served from now on
ListenAndServe ==
    /\ phase \in {"setup", "composed"}
    /\ phase' = "serving"
    /\ UNCHANGED <<mws, handler, pc, req, sink, arws, depth, trace, ret,
                   httpErr, werr, log>>
    /\ UNCHANGED libVars

\* a middleware layer is entered: its logic before delegating to next
Enter(r) ==
    /\ phase = "serving"
    /\ pc[r] = "call"
    /\ depth[r] < Len(Chain(r))
    /\ LET l == Chain(r)[depth[r] + 1]
       IN /\ trace' = [trace EXCEPT ![r] = Append(@, [ev |-> "pre", kind |-> l.kind, idx |-> l.idx])]
          /\ arws' = [arws EXCEPT ![r] =
                        IF l.kind = "access" THEN Append(@, newAccessResponseWriter) ELSE @]
    /\ depth' = [depth EXCEPT ![r] = @ + 1]
    /\ UNCHANGED <<phase, mws, handler, pc, req, sink, ret, httpErr, werr, log>>
    /\ UNCHANGED libVars

\* mutant: the wrappers are shared, a write is counted by those of every
\* request
InnerShared(r) ==
    /\ phase = "serving"
    /\ pc[r] = "call"
    /\ depth[r] = Len(Chain(r))
    /\ trace' = [trace EXCEPT ![r] = Append(@, [ev |-> "h", kind |-> "handler", idx |-> 0])]
    /\ IF req[r].writes = "ok"
       THEN LET s1 == SinkWriteHeader(sink[r], StatusOK, "handler")
                w == SinkWrite(s1, OkChunk, req[r].sinkOK, "handler")
            IN /\ sink' = [sink EXCEPT ![r] = w.sink]
               /\ arws' = [q \in Reqs |->
                             [i \in DOMAIN arws[q] |->
                                ArwWrite(ArwWriteHeader(arws[q][i], StatusOK), w.n)]]
       ELSE UNCHANGED <<sink, arws>>
    /\ ret' = [ret EXCEPT ![r] = req[r].fail]
    /\ pc' = [pc EXCEPT ![r] = "unwind"]
    /\ UNCHANGED <<phase, mws, handler, req, depth, httpErr, werr, log>>
    /\ UNCHANGED libVars

\* the innermost handler runs: it writes through the wrappers in scope and
\* returns its error
Inner(r) ==
    /\ phase = "serving"
    /\ pc[r] = "call"
    /\ depth[r] = Len(Chain(r))
    /\ trace' = [trace EXCEPT ![r] = Append(@, [ev |-> "h", kind |-> "handler", idx |-> 0])]
    /\ IF req[r].writes = "ok"
       THEN LET s1 == SinkWriteHeader(sink[r], StatusOK, "handler")
                w == SinkWrite(s1, OkChunk, req[r].sinkOK, "handler")
            IN /\ sink' = [sink EXCEPT ![r] = w.sink]
               /\ arws' = [arws EXCEPT ![r] =
                             [i \in DOMAIN @ |->
                                ArwWrite(ArwWriteHeader(@[i], StatusOK), w.n)]]
       ELSE UNCHANGED <<sink, arws>>
    /\ ret' = [ret EXCEPT ![r] = req[r].fail]
    /\ pc' = [pc EXCEPT ![r] = "unwind"]
    /\ UNCHANGED <<phase, mws, handler, req, depth, httpErr, werr, log>>
    /\ UNCHANGED libVars

\* mutant: the access logger answers for the failure itself, returning nil
ExitSwallow(r) ==
    /\ pc[r] = "unwind"
    /\ depth[r] > 0
    /\ LET l == Chain(r)[depth[r]]
       IN /\ trace' = [trace EXCEPT ![r] = Append(@, [ev |-> "post", kind |-> l.kind, idx |-> l.idx])]
          /\ IF l.kind = "access"
             THEN /\ log' = [log EXCEPT ![r] = Append(@, AccessRecord(arws[r][Len(arws[r])]))]
                  /\ arws' = [arws EXCEPT ![r] = SubSeq(@, 1, Len(@) - 1)]
                  /\ ret' = [ret EXCEPT ![r] = NoFailure]
             ELSE UNCHANGED <<log, arws, ret>>
    /\ depth' = [depth EXCEPT ![r] = @ - 1]
    /\ UNCHANGED <<phase, mws, handler, pc, req, sink, httpErr, werr>>
    /\ UNCHANGED libVars

\* a middleware layer resumes after next returned: the access logger emits
\* its record; every layer returns the error it got
Exit(r) ==
    /\ pc[r] = "unwind"
    /\ depth[r] > 0
    /\ LET l == Chain(r)[depth[r]]
       IN /\ trace' = [trace EXCEPT ![r] = Append(@, [ev |-> "post", kind |-> l.kind, idx |-> l.idx])]
          /\ IF l.kind = "access"
             THEN /\ log' = [log EXCEPT ![r] = Append(@, AccessRecord(arws[r][Len(arws[r])]))]
                  /\ arws' = [arws EXCEPT ![r] = SubSeq(@, 1, Len(@) - 1)]
             ELSE UNCHANGED <<log, arws>>
    /\ depth' = [depth EXCEPT ![r] = @ - 1]
    /\ UNCHANGED <<phase, mws, handler, pc, req, sink, ret, httpErr, werr>>
    /\ UNCHANGED libVars

\* mutant: ServeHTTP hands every result to handleError, nil included
ReturnUnchecked(r) ==
    /\ pc[r] = "unwind"
    /\ depth[r] = 0
    /\ pc' = [pc EXCEPT ![r] = "handleError"]
    /\ UNCHANGED <<phase, mws, handler, req, sink, arws, depth, trace, ret,
                   httpErr, werr, log>>
    /\ UNCHANGED libVars

\* ServeHTTP: err := h(w, r); if err != nil { handleError(w, err); return }
Return(r) ==
    /\ pc[r] = "unwind"
    /\ depth[r] = 0
    /\ pc' = [pc EXCEPT ![r] = IF ret[r].kind = "nil" THEN "done" ELSE "handleError"]
    /\ UNCHANGED <<phase, mws, handler, req, sink, arws, depth, trace, ret,
                   httpErr, werr, log>>
    /\ UNCHANGED libVars

\* handleError: narrow to *Error, else build the catch-all
Narrow(r) ==
    /\ pc[r] = "handleError"
    /\ httpErr' = [httpErr EXCEPT ![r] =
                     IF IsTyped(ret[r]) THEN ret[r].typed ELSE Synthesized(ret[r])]
    /\ pc' = [pc EXCEPT ![r] = "write"]
    /\ UNCHANGED <<phase, mws, handler, req, sink, arws, depth, trace, ret, werr, log>>
    /\ UNCHANGED libVars

\* handleError: if err := WriteJSON(w, httpErr.Code, httpErr); err != nil
FirstWrite(r) ==
    /\ pc[r] = "write"
    /\ LET res == WriteJSON(sink[r], httpErr[r].Code, httpErr[r], req[r].sinkOK, "handleError")
       IN /\ sink' = [sink EXCEPT ![r] = res.sink]
          /\ werr' = [werr EXCEPT ![r] = res.err]
          /\ pc' = [pc EXCEPT ![r] = IF res.err # Nil THEN "retry" ELSE "log"]
    /\ UNCHANGED <<phase, mws, handler, req, arws, depth, trace, ret, httpErr, log>>
    /\ UNCHANGED libVars

\* handleError: overwrite Details, log the failure, write again
Retry(r) ==
    /\ pc[r] = "retry"
    /\ LET e == [httpErr[r] EXCEPT !.Details = FailedMsg]
           res == WriteJSON(sink[r], e.Code, e, req[r].sinkOK, "handleError")
       IN /\ httpErr' = [httpErr EXCEPT ![r] = e]
          /\ log' = [log EXCEPT ![r] = Append(@, SerializeFailureRecord(e, werr[r]))]
          /\ sink' = [sink EXCEPT ![r] = res.sink]
    /\ pc' = [pc EXCEPT ![r] = "log"]
    /\ UNCHANGED <<phase, mws, handler, req, arws, depth, trace, ret, werr>>
    /\ UNCHANGED libVars

\* mutant: handleError logs by status class instead of by the Log field
LogIfServerError(r) ==
    /\ pc[r] = "log"
    /\ log' = [log EXCEPT ![r] =
                 IF httpErr[r].Log \/ httpErr[r].Code >= StatusInternalServerError
                 THEN Append(@, ErrorRecord(httpErr[r])) ELSE @]
    /\ pc' = [pc EXCEPT ![r] = "done"]
    /\ UNCHANGED <<phase, mws, handler, req, sink, arws, depth, trace, ret, httpErr, werr>>
    /\ UNCHANGED libVars

\* handleError: if httpErr.Log { slog.Error(...) }
LogIfMarked(r) ==
    /\ pc[r] = "log"
    /\ log' = [log EXCEPT ![r] =
                 IF httpErr[r].Log THEN Append(@, ErrorRecord(httpErr[r])) ELSE @]
    /\ pc' = [pc EXCEPT ![r] = "done"]
    /\ UNCHANGED <<phase, mws, handler, req, sink, arws, depth, trace, ret, httpErr, werr>>
    /\ UNCHANGED libVars

(* --------------------------- specifications ---------------------------- *)

\* what a call without results returns
NoReturn == [n |-> 0, err |-> Nil]

\* newAccessResponseWriter(w) on a fresh w, and a second fresh sink
WrapperInit ==
    /\ wrapper = newAccessResponseWriter
    /\ under = FreshSink
    /\ bare = FreshSink
    /\ calls = <<>>
    /\ got = NoReturn
    /\ want = NoReturn

\* a nil pointer of any *T
NilPtr == [nil |-> TRUE]

\* no body is being read
CodecIdle ==
    /\ rd = [doc |-> [form |-> "empty", fields |-> <<>>, tail |-> ""], fails |-> FALSE]
    /\ rcall = [fn |-> "none", T |-> "none"]
    /\ rpc = "idle"
    /\ v = NilPtr
    /\ validations = <<>>
    /\ rout = [value |-> NilPtr, err |-> NoFailure]

\* NewError is not being called
NewErrorIdle ==
    /\ nargs = [code |-> 0, message |-> "", opts |-> <<>>]
    /\ npc = "idle"
    /\ newErr = ZeroError
    /\ napplied = 0

\* Param{}
ZeroParam == [from |-> "", name |-> "", value |-> ""]

\* no parameter is being read
ParamIdle ==
    /\ query = <<>>
    /\ pname = ""
    /\ ppc = "idle"
    /\ pres = [param |-> ZeroParam, err |-> NoFailure]

\* nothing is being written
WriteIdle ==
    /\ rec = FreshSink
    /\ wargs = [fn |-> "none"]
    /\ wpc = "idle"
    /\ wret = Nil

\* there is no second handler value
ComposeIdle ==
    /\ twin = <<>>
    /\ parts = [how |-> "none", k |-> 0]

\* the parts of the state a specification does not exercise stay as built
LibIdle ==
    /\ WrapperInit /\ CodecIdle /\ NewErrorIdle /\ ParamIdle /\ WriteIdle
    /\ ComposeIdle

Idle(f) == [r \in Reqs |-> f]

InitCommon ==
    /\ mws = <<>>
    /\ handler = <<>>
    /\ sink = Idle(FreshSink)
    /\ arws = Idle(<<>>)
    /\ depth = Idle(0)
    /\ trace = Idle(<<>>)
    /\ ret = Idle(NoFailure)
    /\ httpErr = Idle(ZeroError)
    /\ werr = Idle(Nil)
    /\ log = Idle(<<>>)

\* one request, of any circumstances, served by a handler still to be composed
Init ==
    /\ InitCommon
    /\ LibIdle
    /\ phase = "setup"
    /\ pc = [r \in Reqs |-> IF r = 1 THEN "call" ELSE "off"]
    /\ \E q \in Requests : req = [r \in Reqs |-> IF r = 1 THEN q ELSE Off]

Next ==
    \/ \E ms \in MwLists(MaxMw) : WithMiddlewares(ms)
    \/ ListenAndServe
    \/ \E r \in Reqs : Enter(r)
    \/ \E r \in Reqs : Inner(r)
    \/ \E r \in Reqs : Exit(r)
    \/ \E r \in Reqs : Return(r)
    \/ \E r \in Reqs : Narrow(r)
    \/ \E r \in Reqs : FirstWrite(r)
    \/ \E r \in Reqs : Retry(r)
    \/ \E r \in Reqs : LogIfMarked(r)

Spec == Init /\ [][Next]_vars

(* --------------------- two requests side by side ----------------------- *)

\* what the client can be told of a failure: code, message and details of
\* the Typed Error it is or wraps
Public(f) == <<f.typed.Code, f.typed.Message, f.typed.Details>>

\* two requests in the same circumstances whose failures are Typed Errors
\* with the same public fields; cause and logging flag are free in each
InitPair ==
    /\ InitCommon
    /\ LibIdle
    /\ phase = "serving"
    /\ pc = [r \in Reqs |-> "call"]
    /\ \E q1 \in Requests, q2 \in Requests :
          /\ IsTyped(q1.fail) /\ IsTyped(q2.fail)
          /\ Public(q1.fail) = Public(q2.fail)
          /\ q1.writes = q2.writes /\ q1.sinkOK = q2.sinkOK
          /\ req = [r \in Reqs |-> IF r = 1 THEN q1 ELSE q2]

NextPair ==
    \/ \E r \in Reqs : Inner(r)
    \/ \E r \in Reqs : Return(r)
    \/ \E r \in Reqs : Narrow(r)
    \/ \E r \in Reqs : FirstWrite(r)
    \/ \E r \in Reqs : Retry(r)
    \/ \E r \in Reqs : LogIfMarked(r)

SpecPair == InitPair /\ [][NextPair]_vars

(* ------------- one composed handler, two requests at once -------------- *)

\* the handler of the tests returning NewError(404, "not found")
NotFoundFailure ==
    [kind |-> "typed", text |-> "not found",
     typed |-> NewError(StatusNotFound, "not found")]

\* the requests served at once: the handler writes or not, returns nil or a
\* Typed Error, on a sink that accepts writes or not
SharedRequests ==
    {q \in Requests : q.fail \in {NoFailure, NotFoundFailure}}

\* the handler is composed once at start-up and then handed to the server,
\* which calls it from one goroutine per request
InitShared ==
    /\ InitCommon
    /\ LibIdle
    /\ phase = "setup"
    /\ pc = [r \in Reqs |-> "call"]
    /\ req \in [Reqs -> SharedRequests]

SpecShared == InitShared /\ [][Next]_vars

(* ------------- one list of middlewares, composed two ways -------------- *)

\* h.WithMiddlewares(m2...).WithMiddlewares(m1...), where m1 are the first
\* k middlewares of the list the other handler value was composed from in
\* one call, and m2 the rest
SplitCalls(k) ==
    /\ phase = "composed"
    /\ parts.how = "none"
    /\ k <= Len(mws)
    /\ twin' = applyMiddlewares(
                   applyMiddlewares(twin, SubSeq(mws, k + 1, Len(mws))),
                   SubSeq(mws, 1, k))
    /\ parts' = [how |-> "split", k |-> k]
    /\ UNCHANGED <<serveVars, wrapperVars, codecVars, newErrorVars, paramVars,
                   writeVars>>

\* h itself, next to h.WithMiddlewares()
NoCall ==
    /\ phase = "composed"
    /\ parts.how = "none"
    /\ mws = <<>>
    /\ parts' = [how |-> "bare", k |-> 0]
    /\ UNCHANGED <<serveVars, wrapperVars, codecVars, newErrorVars, paramVars,
                   writeVars, twin>>

\* both handler values are handed to a server
ServeBoth == parts.how # "none" /\ ListenAndServe

\* the same request is sent to each of the two handler values
InitCompose ==
    /\ InitCommon
    /\ LibIdle
    /\ phase = "setup"
    /\ pc = [r \in Reqs |-> "call"]
    /\ \E q \in SharedRequests : req = [r \in Reqs |-> q]

NextCompose ==
    \/ \E ms \in MwLists(MaxMw) : WithMiddlewares(ms)
    \/ \E k \in 0..MaxMw : SplitCalls(k)
    \/ NoCall
    \/ ServeBoth
    \/ \E r \in Reqs : Enter(r)
    \/ \E r \in Reqs : Inner(r)
    \/ \E r \in Reqs : Exit(r)
    \/ \E r \in Reqs : Return(r)
    \/ \E r \in Reqs : Narrow(r)
    \/ \E r \in Reqs : FirstWrite(r)
    \/ \E r \in Reqs : Retry(r)
    \/ \E r \in Reqs : LogIfMarked(r)

SpecCompose == InitCompose /\ [][NextCompose]_vars

(* ------------------- the wrapper, call by call ------------------------- *)

\* most calls made on one wrapper
MaxCalls == 3

ContentTypes == {ContentTypeJSON, "text/plain"}
\* what a caller may pass to Write
Chunks == {OkChunk, JSONChunk(NewError(StatusNotFound, "not found"))}

\* no request is being served
ServeIdle ==
    /\ InitCommon
    /\ phase = "setup"
    /\ pc = [r \in Reqs |-> "off"]
    /\ req = [r \in Reqs |-> Off]

\* Header() is promoted from the embedded http.ResponseWriter
arwHeaderSet(x, ct) ==
    [arw |-> x.arw, w |-> SinkHeaderSet(x.w, ct, "caller"), n |-> 0, err |-> Nil]

\* arw.statusCode = statusCode; arw.ResponseWriter.WriteHeader(statusCode)
arwWriteHeader(x, statusCode) ==
    [arw |-> ArwWriteHeader(x.arw, statusCode),
     w |-> SinkWriteHeader(x.w, statusCode, "caller"), n |-> 0, err |-> Nil]

\* mutant: Write reports the whole slice as written and no error
arwWriteAll(x, chunk, ok) ==
    LET res == SinkWrite(x.w, chunk, ok, "caller")
    IN [arw |-> ArwWrite(x.arw, Len(chunk.text)), w |-> res.sink,
        n |-> Len(chunk.text), err |-> Nil]

\* size, err := arw.ResponseWriter.Write(b); arw.bodySize += size;
\* return size, err
arwWrite(x, chunk, ok) ==
    LET res == SinkWrite(x.w, chunk, ok, "caller")
    IN [arw |-> ArwWrite(x.arw, res.n), w |-> res.sink, n |-> res.n, err |-> res.err]

\* the result of a call made on the wrapper (res) and of the same call made
\* on the bare sink (sinkAfter, result) become the state
Called(call, res, sinkAfter, result) ==
    /\ Len(calls) < MaxCalls
    /\ calls' = Append(calls, call)
    /\ wrapper' = res.arw
    /\ under' = res.w
    /\ got' = [n |-> res.n, err |-> res.err]
    /\ bare' = sinkAfter
    /\ want' = result
    /\ UNCHANGED <<serveVars, codecVars, newErrorVars, paramVars, writeVars, composeVars>>

CallHeaderSet(ct) ==
    Called([op |-> "Header.Set", arg |-> ct, ok |-> TRUE],
           arwHeaderSet([arw |-> wrapper, w |-> under], ct),
           SinkHeaderSet(bare, ct, "caller"), NoReturn)

CallWriteHeader(statusCode) ==
    Called([op |-> "WriteHeader", arg |-> statusCode, ok |-> TRUE],
           arwWriteHeader([arw |-> wrapper, w |-> under], statusCode),
           SinkWriteHeader(bare, statusCode, "caller"), NoReturn)

CallWrite(chunk, ok) ==
    LET direct == SinkWrite(bare, chunk, ok, "caller")
    IN Called([op |-> "Write", arg |-> chunk.text, ok |-> ok],
              arwWrite([arw |-> wrapper, w |-> under], chunk, ok),
              direct.sink, [n |-> direct.n, err |-> direct.err])

InitWrapper ==
    ServeIdle /\ WrapperInit /\ CodecIdle /\ NewErrorIdle /\ ParamIdle /\ WriteIdle /\ ComposeIdle

NextWrapper ==
    \/ \E ct \in ContentTypes : CallHeaderSet(ct)
    \/ \E c \in Codes \cup {StatusOK} : CallWriteHeader(c)
    \/ \E chunk \in Chunks, ok \in BOOLEAN : CallWrite(chunk, ok)

SpecWrapper == InitWrapper /\ [][NextWrapper]_vars

(* --------------------------- the body codec ---------------------------- *)

\* a key the document does not hold
Absent == "<absent>"

\* the struct types of the tests, as T and as *T; only *validatingStruct has
\* Validate in its method set (the method has a pointer receiver)
Types == {"testStruct", "*testStruct", "validatingStruct", "*validatingStruct"}
IsPointer(T) == T \in {"*testStruct", "*validatingStruct"}

\* mutant: Validate is found through the address of a value of type S too
HasValidatorByAddress(T) == T \in {"validatingStruct", "*validatingStruct"}

\* v.(Validator): the dynamic type of v is T
HasValidator(T) == T = "*validatingStruct"

ZeroStruct == [Name |-> "", Email |-> "", Age |-> 0]
\* var v T
ZeroOf(T) == IF IsPointer(T) THEN NilPtr ELSE ZeroStruct

\* the keys of a document and the values they may hold
FieldSets ==
    [name : {Absent, "John"}, email : {Absent, "john@example.com"},
     age : {Absent, "-5", "30"}]
NoFields == [name |-> Absent, email |-> Absent, age |-> Absent]

\* what a stream may hold: a well-formed JSON or XML document, possibly
\* followed by more bytes, or bytes that are no document: plain text, a JSON
\* object cut short, an XML element closed by the wrong tag, nothing
Tails == {"", " trailing"}
Documents ==
    [form : {"json", "xml"}, fields : FieldSets, tail : Tails]
    \cup [form : {"text", "cut", "xmlbad", "empty"}, fields : {NoFields}, tail : {""}]

Readers == [doc : Documents, fails : BOOLEAN]

\* the bytes of a document
JSONPair(k, val, sep) ==
    IF val = Absent THEN ""
    ELSE sep \o "\"" \o k \o "\":"
         \o (IF k = "age" THEN val ELSE "\"" \o val \o "\"")
XMLPair(k, val) ==
    IF val = Absent THEN ""
    ELSE "<" \o k \o ">" \o val \o "</" \o k \o ">"
Bytes(doc) ==
    CASE doc.form = "json" ->
           LET f == doc.fields
               n == JSONPair("name", f.name, "")
               e == JSONPair("email", f.email, IF n = "" THEN "" ELSE ",")
               a == JSONPair("age", f.age, IF n \o e = "" THEN "" ELSE ",")
           IN "{" \o n \o e \o a \o "}" \o doc.tail
      [] doc.form = "xml" ->
           "<testStruct>" \o XMLPair("name", doc.fields.name)
           \o XMLPair("email", doc.fields.email) \o XMLPair("age", doc.fields.age)
           \o "</testStruct>" \o doc.tail
      [] doc.form = "text" -> "this is not JSON"
      [] doc.form = "cut" -> "{\"name\":\"John\""
      [] doc.form = "xmlbad" -> "<testStruct><name>John</testStruct>"
      [] OTHER -> ""

ReadError == "read error"

\* the int a number of the document stands for
ParseInt(text) == IF text = "-5" THEN -5 ELSE IF text = "30" THEN 30 ELSE 0

\* the struct a document's keys are stored into, by the fields' tags; a key
\* the document does not hold leaves the zero value
Stored(fields) ==
    [Name |-> IF fields.name = Absent THEN "" ELSE fields.name,
     Email |-> IF fields.email = Absent THEN "" ELSE fields.email,
     Age |-> IF fields.age = Absent THEN 0 ELSE ParseInt(fields.age)]

\* json.NewDecoder(r).Decode(&v): the next JSON value of the stream is read
\* and stored; what follows it in the stream is not looked at
JSONDecode(r, T) ==
    IF r.fails THEN [err |-> ReadError, v |-> ZeroOf(T)]
    ELSE CASE r.doc.form = "json" -> [err |-> Nil, v |-> Stored(r.doc.fields)]
           [] r.doc.form \in {"xml", "xmlbad"} ->
                [err |-> "invalid character '<' looking for beginning of value",
                 v |-> ZeroOf(T)]
           [] r.doc.form = "text" ->
                [err |-> "invalid character 'h' in literal true (expecting 'r')",
                 v |-> ZeroOf(T)]
           [] r.doc.form = "cut" -> [err |-> "unexpected EOF", v |-> ZeroOf(T)]
           [] OTHER -> [err |-> "EOF", v |-> ZeroOf(T)]

\* xml.NewDecoder(r).Decode(&v): character data before the first start
\* element is skipped, the element is stored; what follows its end tag is
\* not looked at. A *T is allocated once a start element was found.
XMLDecode(r, T) ==
    IF r.fails THEN [err |-> ReadError, v |-> ZeroOf(T)]
    ELSE CASE r.doc.form = "xml" -> [err |-> Nil, v |-> Stored(r.doc.fields)]
           [] r.doc.form = "xmlbad" ->
                [err |-> "XML syntax error on line 1: element <name> closed by </testStruct>",
                 v |-> ZeroStruct]
           [] OTHER -> [err |-> "EOF", v |-> ZeroOf(T)]

\* (v *validatingStruct) Validate()
Validate(s) ==
    IF s.Name = "" THEN [err |-> "name is required", v |-> s]
    ELSE IF s.Email = "" THEN [err |-> "email is required", v |-> s]
    ELSE [err |-> Nil, v |-> [s EXCEPT !.Age = IF @ < 0 THEN 0 ELSE @]]

\* an error value as a caller sees it
PlainFailure(text) == [kind |-> "plain", text |-> text, typed |-> ZeroError]
TypedFailure(e) == [kind |-> "typed", text |-> e.Message, typed |-> e]

InvalidBodyMsg(fn) ==
    IF fn = "ReadJSON" THEN "invalid JSON body" ELSE "invalid XML body"

\* NewError(http.StatusBadRequest, "invalid ... body", WithDetails(err))
DecodeFailure(fn, err) ==
    TypedFailure(WithDetails(NewError(StatusBadRequest, InvalidBodyMsg(fn)), err))

\* mutant: Validate runs on a copy, the caller's v keeps the decoded value
verifyValidatorOnCopy(T, val) ==
    IF ~HasValidator(T) THEN [err |-> Nil, v |-> val, called |-> FALSE]
    ELSE LET res == Validate(val)
         IN [err |-> res.err, v |-> val, called |-> TRUE]

\* verifyValidator(v): Validate runs on the value v points to when v's type
\* has the method, and what it changes there is seen through v
verifyValidator(T, val) ==
    IF ~HasValidator(T) THEN [err |-> Nil, v |-> val, called |-> FALSE]
    ELSE LET res == Validate(val)
         IN [err |-> res.err, v |-> res.v, called |-> TRUE]

\* mutant: the read error is kept as the cause and not as the details
ReadBytesAsCause(r) ==
    IF r.fails
    THEN [value |-> NilPtr,
          err |-> TypedFailure(WithInternalError(
                     NewError(StatusBadRequest, "unable to read body"), ReadError))]
    ELSE [value |-> [bytes |-> Bytes(r.doc)], err |-> NoFailure]

\* ReadBytes: io.ReadAll, and a 400 when it fails
ReadBytes(r) ==
    IF r.fails
    THEN [value |-> NilPtr,
          err |-> TypedFailure(WithDetails(
                     NewError(StatusBadRequest, "unable to read body"), ReadError))]
    ELSE [value |-> [bytes |-> Bytes(r.doc)], err |-> NoFailure]

\* ReadJSON / ReadXML up to the decoder's result: a decode error is
\* returned at once as a 400
ReadDecode ==
    /\ rpc = "start"
    /\ rcall.fn \in {"ReadJSON", "ReadXML"}
    /\ LET res == IF rcall.fn = "ReadJSON" THEN JSONDecode(rd, rcall.T)
                  ELSE XMLDecode(rd, rcall.T)
       IN /\ v' = res.v
          /\ IF res.err # Nil
             THEN /\ rout' = [value |-> res.v, err |-> DecodeFailure(rcall.fn, res.err)]
                  /\ rpc' = "returned"
             ELSE /\ rpc' = "decoded"
                  /\ UNCHANGED rout
    /\ UNCHANGED <<rd, rcall, validations>>
    /\ UNCHANGED <<serveVars, wrapperVars, newErrorVars, paramVars, writeVars, composeVars>>

\* mutant: the validator's error is wrapped like a decode error
ReadVerifyWrapped ==
    /\ rpc = "decoded"
    /\ LET res == verifyValidator(rcall.T, v)
       IN /\ v' = res.v
          /\ validations' = IF res.called THEN Append(validations, v) ELSE validations
          /\ rout' = [value |-> res.v,
                      err |-> IF res.err # Nil THEN DecodeFailure(rcall.fn, res.err)
                              ELSE NoFailure]
    /\ rpc' = "returned"
    /\ UNCHANGED <<rd, rcall>>
    /\ UNCHANGED <<serveVars, wrapperVars, newErrorVars, paramVars, writeVars, composeVars>>

\* ReadJSON / ReadXML after a decode without error: verifyValidator(v), and
\* v is returned with the error it gave, if any
ReadVerify ==
    /\ rpc = "decoded"
    /\ LET res == verifyValidator(rcall.T, v)
       IN /\ v' = res.v
          /\ validations' = IF res.called THEN Append(validations, v) ELSE validations
          /\ rout' = [value |-> res.v,
                      err |-> IF res.err # Nil THEN PlainFailure(res.err) ELSE NoFailure]
    /\ rpc' = "returned"
    /\ UNCHANGED <<rd, rcall>>
    /\ UNCHANGED <<serveVars, wrapperVars, newErrorVars, paramVars, writeVars, composeVars>>

ReadBytesCall ==
    /\ rpc = "start"
    /\ rcall.fn = "ReadBytes"
    /\ rout' = ReadBytes(rd)
    /\ rpc' = "returned"
    /\ UNCHANGED <<rd, rcall, v, validations>>
    /\ UNCHANGED <<serveVars, wrapperVars, newErrorVars, paramVars, writeVars, composeVars>>

\* the calls a caller may make
ReadCalls ==
    [fn : {"ReadJSON", "ReadXML"}, T : Types] \cup {[fn |-> "ReadBytes", T |-> "none"]}

\* one call, of any function and type argument, on any reader
InitCodec ==
    /\ ServeIdle /\ WrapperInit /\ NewErrorIdle /\ ParamIdle /\ WriteIdle /\ ComposeIdle
    /\ rd \in Readers
    /\ rcall \in ReadCalls
    /\ rpc = "start"
    /\ v = IF rcall.fn = "ReadBytes" THEN NilPtr ELSE ZeroOf(rcall.T)
    /\ validations = <<>>
    /\ rout = [value |-> NilPtr, err |-> NoFailure]

NextCodec == ReadDecode \/ ReadVerify \/ ReadBytesCall

SpecCodec == InitCodec /\ [][NextCodec]_vars

(* ------------- a handler that decodes the body of its request ---------- *)

\* the handler has called ReadJSON[T] / ReadXML[T] on the body and returns:
\*   v, err := ReadJSON[T](r.Body); if err != nil { return err }; return nil
HandlerReturns(r) ==
    /\ phase = "serving"
    /\ pc[r] = "call"
    /\ depth[r] = Len(Chain(r))
    /\ rpc = "returned"
    /\ trace' = [trace EXCEPT ![r] = Append(@, [ev |-> "h", kind |-> "handler", idx |-> 0])]
    /\ ret' = [ret EXCEPT ![r] = rout.err]
    /\ pc' = [pc EXCEPT ![r] = "unwind"]
    /\ UNCHANGED <<phase, mws, handler, req, sink, arws, depth, httpErr, werr, log>>
    /\ UNCHANGED libVars

\* one request whose handler decodes the body, of any content, into any T;
\* what the handler returns is what the call returned
InitRead ==
    /\ InitCommon
    /\ WrapperInit /\ NewErrorIdle /\ ParamIdle /\ WriteIdle /\ ComposeIdle
    /\ phase = "serving"
    /\ pc = [r \in Reqs |-> IF r = 1 THEN "call" ELSE "off"]
    /\ \E ok \in BOOLEAN :
          req = [r \in Reqs |-> IF r = 1 THEN [Off EXCEPT !.sinkOK = ok] ELSE Off]
    /\ rd \in Readers
    /\ rcall \in [fn : {"ReadJSON", "ReadXML"}, T : Types]
    /\ rpc = "start"
    /\ v = ZeroOf(rcall.T)
    /\ validations = <<>>
    /\ rout = [value |-> NilPtr, err |-> NoFailure]

NextRead ==
    \/ ReadDecode
    \/ ReadVerify
    \/ \E r \in Reqs : HandlerReturns(r)
    \/ \E r \in Reqs : Return(r)
    \/ \E r \in Reqs : Narrow(r)
    \/ \E r \in Reqs : FirstWrite(r)
    \/ \E r \in Reqs : Retry(r)
    \/ \E r \in Reqs : LogIfMarked(r)

SpecRead == InitRead /\ [][NextRead]_vars

(* ------------------------ NewError with options ------------------------ *)

\* most options passed to one NewError
MaxOpts == 3

\* the options a caller may pass
Options ==
    {[opt |-> "WithDetails", arg |-> d] : d \in {"first", "second"}}
    \cup {[opt |-> "WithInternalError", arg |-> "db down"]}
    \cup {[opt |-> "WithLog", arg |-> Nil]}

\* lists of at most n options
RECURSIVE OptLists(_)
OptLists(n) ==
    IF n = 0 THEN {<<>>}
    ELSE LET shorter == OptLists(n - 1)
         IN shorter \cup {Append(l, o) : l \in {x \in shorter : Len(x) = n - 1},
                                           o \in Options}

\* opt(err): the closure the option constructor returned, run on err
ApplyOption(e, o) ==
    CASE o.opt = "WithDetails" -> WithDetails(e, o.arg)
      [] o.opt = "WithInternalError" -> WithInternalError(e, o.arg)
      [] OTHER -> WithLog(e)

\* err := &Error{Code: code, Message: message, Log: false}
NewErrorEnter ==
    /\ npc = "start"
    /\ newErr' = NewError(nargs.code, nargs.message)
    /\ npc' = "loop"
    /\ UNCHANGED <<nargs, napplied>>
    /\ UNCHANGED <<serveVars, wrapperVars, codecVars, paramVars, writeVars, composeVars>>

\* mutant: the loop runs over the options from the last to the first
ApplyNextFromEnd ==
    /\ npc = "loop"
    /\ napplied < Len(nargs.opts)
    /\ newErr' = ApplyOption(newErr, nargs.opts[Len(nargs.opts) - napplied])
    /\ napplied' = napplied + 1
    /\ UNCHANGED <<nargs, npc>>
    /\ UNCHANGED <<serveVars, wrapperVars, codecVars, paramVars, writeVars, composeVars>>

\* for _, opt := range opts { opt(err) }: one iteration
ApplyNext ==
    /\ npc = "loop"
    /\ napplied < Len(nargs.opts)
    /\ newErr' = ApplyOption(newErr, nargs.opts[napplied + 1])
    /\ napplied' = napplied + 1
    /\ UNCHANGED <<nargs, npc>>
    /\ UNCHANGED <<serveVars, wrapperVars, codecVars, paramVars, writeVars, composeVars>>

\* return err
NewErrorReturn ==
    /\ npc = "loop"
    /\ napplied = Len(nargs.opts)
    /\ npc' = "returned"
    /\ UNCHANGED <<nargs, newErr, napplied>>
    /\ UNCHANGED <<serveVars, wrapperVars, codecVars, paramVars, writeVars, composeVars>>

\* one call with any code, message and list of options
InitNewError ==
    /\ ServeIdle /\ WrapperInit /\ CodecIdle /\ ParamIdle /\ WriteIdle /\ ComposeIdle
    /\ nargs \in [code : Codes \cup {StatusBadRequest}, message : Messages,
                   opts : OptLists(MaxOpts)]
    /\ npc = "start"
    /\ newErr = ZeroError
    /\ napplied = 0

NextNewError == NewErrorEnter \/ ApplyNext \/ NewErrorReturn

SpecNewError == InitNewError /\ [][NextNewError]_vars

(* ------------------------- request parameters -------------------------- *)

\* names a handler may ask for; the last one holds a double quote
ParamNames == {"id", "q", "a\"b"}

\* the values a query string may give for one name, in order
ValueLists == {<<>>, <<"">>, <<"123">>, <<"", "123">>, <<"123", "">>}

fromQuery == "URL query string"

\* strconv.Quote, as %q prints a string: double quotes around it, and a
\* backslash before every double quote and backslash in it
RECURSIVE QuoteFrom(_, _)
QuoteFrom(str, i) ==
    IF i > Len(str) THEN ""
    ELSE LET c == SubSeq(str, i, i)
         IN (IF c = "\"" THEN "\\\"" ELSE IF c = "\\" THEN "\\\\" ELSE c)
            \o QuoteFrom(str, i + 1)
Quote(str) == "\"" \o QuoteFrom(str, 1) \o "\""

\* url.Values.Get: the first value of the name, "" when there is none
QueryGet(q, name) == IF q[name] = <<>> THEN "" ELSE q[name][1]

\* Param{from: fromQuery, name: name, value: r.URL.Query().Get(name)}
NewQueryParam(q, name) ==
    [from |-> fromQuery, name |-> name, value |-> QueryGet(q, name)]

\* p.newError(msg):
\* NewError(400, fmt.Sprintf("parameter %q from %s %s", p.name, p.from, msg))
newError(p, msg) ==
    TypedFailure(NewError(StatusBadRequest,
        "parameter " \o Quote(p.name) \o " from " \o p.from \o " " \o msg))

\* mutant: only a name without any value is refused
NewRequiredQueryParamIfAbsent(q, name) ==
    LET p == NewQueryParam(q, name)
    IN IF q[name] = <<>>
       THEN [param |-> ZeroParam, err |-> newError(p, "is required")]
       ELSE [param |-> p, err |-> NoFailure]

\* p := NewQueryParam(r, name); if p.value == "" { return Param{}, ... }
NewRequiredQueryParam(q, name) ==
    LET p == NewQueryParam(q, name)
    IN IF p.value = ""
       THEN [param |-> ZeroParam, err |-> newError(p, "is required")]
       ELSE [param |-> p, err |-> NoFailure]

RequiredQueryParamCall ==
    /\ ppc = "start"
    /\ pres' = NewRequiredQueryParam(query, pname)
    /\ ppc' = "returned"
    /\ UNCHANGED <<query, pname>>
    /\ UNCHANGED <<serveVars, wrapperVars, codecVars, newErrorVars, writeVars, composeVars>>

\* one call for any name on any query string
InitParam ==
    /\ ServeIdle /\ WrapperInit /\ CodecIdle /\ NewErrorIdle /\ WriteIdle /\ ComposeIdle
    /\ query \in [ParamNames -> ValueLists]
    /\ pname \in ParamNames
    /\ ppc = "start"
    /\ pres = [param |-> ZeroParam, err |-> NoFailure]

NextParam == RequiredQueryParamCall

SpecParam == InitParam /\ [][NextParam]_vars

(* --------------------------- response writers -------------------------- *)

ContentTypeXML == "application/xml"

\* values passed as data to WriteJSON and WriteXML
Payloads ==
    {WithDetails(NewError(StatusNotFound, "not found"), d) : d \in DetailsValues}

\* the bytes xml.Encoder.Encode writes for an Error: the struct has no xml
\* tags, nil interface fields give no element
XMLText(e) ==
    "<Error><Code>" \o ToString(e.Code) \o "</Code><Message>" \o e.Message
    \o "</Message>"
    \o (IF e.Details = Nil THEN "" ELSE "<Details>" \o e.Details \o "</Details>")
    \o (IF e.Err = Nil THEN "" ELSE "<Err></Err>")
    \o "<Log>" \o (IF e.Log THEN "true" ELSE "false") \o "</Log></Error>"

XMLChunk(e) == [json |-> [raw |-> TRUE], text |-> XMLText(e)]

\* xml.NewEncoder(w).Encode(data): nothing reaches w when marshalling
\* fails; a channel cannot be marshalled
XMLEncode(s, e, ok, who) ==
    IF e.Details = Chan
    THEN [sink |-> s, err |-> "xml: unsupported type: chan int"]
    ELSE LET w == SinkWrite(s, XMLChunk(e), ok, who)
         IN [sink |-> w.sink, err |-> w.err]

\* header, then status, then the encoded body
WriteXML(s, code, e, ok, who) ==
    LET s1 == SinkHeaderSet(s, ContentTypeXML, who)
        s2 == SinkWriteHeader(s1, code, who)
    IN XMLEncode(s2, e, ok, who)

\* what WriteBytes and WriteFromReader copy from: a reader holding data, or
\* one whose Read fails
ByteReaders == [data : {"", "Hello, World!"}, fails : BOOLEAN]

\* io.Copy(w, r): a reader at its end gives no Write at all
Copy(s, r, ok, who) ==
    IF r.fails THEN [sink |-> s, err |-> ReadError]
    ELSE IF r.data = "" THEN [sink |-> s, err |-> Nil]
    ELSE LET w == SinkWrite(s, [json |-> [raw |-> TRUE], text |-> r.data], ok, who)
         IN [sink |-> w.sink, err |-> w.err]

\* mutant: the body is copied before header and status are set
WriteFromReaderBodyFirst(s, r, code, contentType, ok, who) ==
    LET c == Copy(s, r, ok, who)
        s1 == SinkHeaderSet(c.sink, contentType, who)
    IN [sink |-> SinkWriteHeader(s1, code, who), err |-> c.err]

\* header, then status, then io.Copy
WriteFromReader(s, r, code, contentType, ok, who) ==
    LET s1 == SinkHeaderSet(s, contentType, who)
        s2 == SinkWriteHeader(s1, code, who)
    IN Copy(s2, r, ok, who)

\* WriteFromReader(w, bytes.NewReader(data), code, contentType)
WriteBytes(s, code, contentType, data, ok, who) ==
    WriteFromReader(s, [data |-> data, fails |-> FALSE], code, contentType, ok, who)

\* the result of the call becomes the state
Written(res) ==
    /\ wpc = "start"
    /\ rec' = res.sink
    /\ wret' = res.err
    /\ wpc' = "returned"
    /\ UNCHANGED wargs
    /\ UNCHANGED <<serveVars, wrapperVars, codecVars, newErrorVars, paramVars, composeVars>>

WriteJSONCall ==
    /\ wargs.fn = "WriteJSON"
    /\ Written(WriteJSON(rec, wargs.code, wargs.data, wargs.ok, "caller"))

WriteXMLCall ==
    /\ wargs.fn = "WriteXML"
    /\ Written(WriteXML(rec, wargs.code, wargs.data, wargs.ok, "caller"))

WriteBytesCall ==
    /\ wargs.fn = "WriteBytes"
    /\ Written(WriteBytes(rec, wargs.code, wargs.contentType, wargs.data.data,
                          wargs.ok, "caller"))

WriteFromReaderCall ==
    /\ wargs.fn = "WriteFromReader"
    /\ Written(WriteFromReader(rec, wargs.data, wargs.code, wargs.contentType,
                               wargs.ok, "caller"))

\* the calls a caller may make; contentType is an argument of the last two
WriteCalls ==
    [fn : {"WriteJSON", "WriteXML"}, code : Codes \cup {StatusOK},
     contentType : {""}, data : Payloads, ok : BOOLEAN]
    \cup [fn : {"WriteBytes"}, code : Codes \cup {StatusOK},
          contentType : {"text/plain", "text/csv"},
          data : {r \in ByteReaders : ~r.fails}, ok : BOOLEAN]
    \cup [fn : {"WriteFromReader"}, code : Codes \cup {StatusOK},
          contentType : {"text/plain", "text/csv"},
          data : ByteReaders, ok : BOOLEAN]

\* one call of any of the four on a fresh sink
InitWrite ==
    /\ ServeIdle /\ WrapperInit /\ CodecIdle /\ NewErrorIdle /\ ParamIdle /\ ComposeIdle
    /\ rec = FreshSink
    /\ wargs \in WriteCalls
    /\ wpc = "start"
    /\ wret = Nil

NextWrite == WriteJSONCall \/ WriteXMLCall \/ WriteBytesCall \/ WriteFromReaderCall

SpecWrite == InitWrite /\ [][NextWrite]_vars

(* ------------------------- vocabulary of the claims -------------------- *)

Done(r) == pc[r] = "done"

\* the failure the innermost handler of request r returns
Fail(r) == req[r].fail

\* operations handleError issued on the sink of request r
IsWriteHeaderByTranslator(o) == o.who = "handleError" /\ o.op = "WriteHeader"
ByTranslator(o) == o.who = "handleError"
TranslatorOps(r) == SelectSeq(sink[r].ops, ByTranslator)
TranslatorWriteHeaders(r) == SelectSeq(sink[r].ops, IsWriteHeaderByTranslator)
\* body chunks of handleError the sink accepted
TranslatorBody(r) == SelectSeq(sink[r].body, ByTranslator)

\* log records handleError emitted
IsSerializeRecord(l) == l.src = "serialize"
IsErrorRecord(l) == l.src = "error"
IsTranslatorRecord(l) == l.src \in {"serialize", "error"}
TranslatorLog(r) == SelectSeq(log[r], IsTranslatorRecord)
ErrorRecords(r) == SelectSeq(log[r], IsErrorRecord)
SerializeRecords(r) == SelectSeq(log[r], IsSerializeRecord)

\* a string value of a JSON object equals the text t
Mentions(obj, t) == \E k \in DOMAIN obj \ {"code"} : obj[k] = t

(* ------------------------------ claims --------------------------------- *)

\* C1: a failure that neither is nor wraps a Typed Error is answered with
\* WriteHeader(500) and, on a sink accepting the write, one JSON body
\* {code: 500, message: "Unexpected error occurred"}; handleError works on
\* the synthesized Error whose cause is the failure and whose Log is set, the
\* record this mark asks for is emitted exactly once and carries the failure,
\* and the failure's text is in no chunk written by handleError.
C1_CatchAll ==
    \A r \in Reqs :
        (Done(r) /\ Fail(r).kind = "plain") =>
            /\ httpErr[r] = [Code |-> StatusInternalServerError, Message |-> UnexpectedMsg,
                             Details |-> httpErr[r].Details, Err |-> Fail(r).text,
                             Log |-> TRUE]
            /\ Len(TranslatorWriteHeaders(r)) >= 1
            /\ \A i \in DOMAIN TranslatorWriteHeaders(r) :
                  TranslatorWriteHeaders(r)[i].code = StatusInternalServerError
            /\ req[r].writes = "none" => sink[r].status = StatusInternalServerError
            /\ req[r].sinkOK =>
                  /\ Len(TranslatorBody(r)) = 1
                  /\ TranslatorBody(r)[1].json =
                        [code |-> StatusInternalServerError, message |-> UnexpectedMsg]
            /\ Len(ErrorRecords(r)) = 1
            /\ ErrorRecords(r)[1].error = Fail(r).text
            /\ ErrorRecords(r)[1].code = StatusInternalServerError
            /\ \A i \in DOMAIN TranslatorBody(r) :
                  ~Mentions(TranslatorBody(r)[i].json, Fail(r).text)

C1_Witness ==
    /\ Done(1) /\ Fail(1).kind = "plain" /\ Fail(1).text = "boom"
    /\ req[1].sinkOK /\ req[1].writes = "none"
    /\ Len(sink[1].body) = 1

\* C2: a Typed Error with serializable details, returned by a handler that
\* wrote nothing, is answered with its code as status, Content-Type
\* application/json and, on a sink accepting the write, one JSON object with
\* the keys code and message, and details exactly when Details is not nil.
C2_TypedResponse ==
    \A r \in Reqs :
        (Done(r) /\ IsTyped(Fail(r)) /\ Marshalable(Fail(r).typed)
                 /\ req[r].writes = "none") =>
            LET e == Fail(r).typed
            IN /\ sink[r].status = e.Code
               /\ sink[r].sent = ContentTypeJSON
               /\ req[r].sinkOK =>
                     /\ Len(sink[r].body) = 1
                     /\ LET obj == sink[r].body[1].json
                        IN /\ DOMAIN obj = {"code", "message"}
                                \cup (IF e.Details # Nil THEN {"details"} ELSE {})
                           /\ obj.code = e.Code
                           /\ obj.message = e.Message
                           /\ e.Details # Nil => obj.details = e.Details

C2_Witness ==
    /\ Done(1) /\ Fail(1).kind = "typed" /\ req[1].writes = "none" /\ req[1].sinkOK
    /\ Fail(1).typed.Details = Nil /\ Fail(1).typed.Err # Nil
    /\ Len(sink[1].body) = 1

\* C3: two failures whose Typed Errors agree on code, message and details,
\* served in the same circumstances, leave the same sink behind (status,
\* headers, body and the operations issued), whatever their causes and
\* logging flags are.
C3_CauseAndLogInvisible ==
    (/\ Done(1) /\ Done(2)
     /\ IsTyped(Fail(1)) /\ IsTyped(Fail(2))
     /\ Public(Fail(1)) = Public(Fail(2))
     /\ req[1].writes = req[2].writes /\ req[1].sinkOK = req[2].sinkOK)
        => sink[1] = sink[2]

C3_Witness ==
    /\ Done(1) /\ Done(2)
    /\ Fail(1).typed.Err # Fail(2).typed.Err
    /\ Fail(1).typed.Log # Fail(2).typed.Log
    /\ Len(sink[1].body) = 1 /\ Len(sink[2].body) = 1
    /\ log[1] # log[2]

\* the events of a request through m1 .. mn around h: pre m1, .., pre mn, h,
\* post mn, .., post m1
Event(ev, middlewares, i) == [ev |-> ev, kind |-> middlewares[i], idx |-> i]
OnionTrace(middlewares) ==
    LET n == Len(middlewares)
    IN [i \in 1..(2 * n + 1) |->
          IF i <= n THEN Event("pre", middlewares, i)
          ELSE IF i = n + 1 THEN [ev |-> "h", kind |-> "handler", idx |-> 0]
          ELSE Event("post", middlewares, 2 * n + 2 - i)]

\* C4: a request served by h.WithMiddlewares(m1, .., mn) runs the layers in
\* argument order on the way in, then h, then the layers in reverse order on
\* the way out; while it is under way its events are a prefix of that order.
C4_OuterToInner ==
    \A r \in Reqs :
        /\ pc[r] \notin {"off", "call", "unwind"} => trace[r] = OnionTrace(mws)
        /\ Len(trace[r]) <= 2 * Len(mws) + 1
        /\ \A i \in DOMAIN trace[r] : trace[r][i] = OnionTrace(mws)[i]

C4_Witness ==
    /\ Done(1)
    /\ Len(mws) = 2 /\ mws[1] # mws[2]
    /\ Len(trace[1]) = 5

\* the *Error handleError narrows the failure of request r to
Narrowed(r) == IF IsTyped(Fail(r)) THEN Fail(r).typed ELSE Synthesized(Fail(r))

\* C5: a Typed Error whose details cannot be serialized ends with Details
\* replaced by the fixed string and code and message as they were; every
\* WriteHeader of handleError carries the error's code, which is the status
\* sent when the handler wrote nothing; a sink accepting the write gets one
\* body {code, message, details: "failed to serialize error details"}; and
\* exactly one log record carries both the serialization error and the
\* original cause.
C5_UnserializableDetails ==
    \A r \in Reqs :
        (Done(r) /\ IsTyped(Fail(r)) /\ ~Marshalable(Fail(r).typed)) =>
            LET e == Fail(r).typed
            IN /\ httpErr[r] = [e EXCEPT !.Details = FailedMsg]
               /\ \A i \in DOMAIN TranslatorWriteHeaders(r) :
                     TranslatorWriteHeaders(r)[i].code = e.Code
               /\ req[r].writes = "none" => sink[r].status = e.Code
               /\ req[r].sinkOK =>
                     /\ Len(TranslatorBody(r)) = 1
                     /\ TranslatorBody(r)[1].json =
                           [code |-> e.Code, message |-> e.Message, details |-> FailedMsg]
               /\ Cardinality({i \in DOMAIN log[r] :
                                  /\ log[r][i].error = MarshalError
                                  /\ log[r][i].original_error = e.Err}) = 1

C5_Witness ==
    /\ Done(1) /\ Fail(1).kind = "typed" /\ Fail(1).typed.Details = Chan
    /\ Fail(1).typed.Err # Nil /\ ~Fail(1).typed.Log
    /\ req[1].writes = "none" /\ req[1].sinkOK
    /\ Len(sink[1].body) = 1 /\ Len(log[1]) = 1

\* C6: handleError issues WriteHeader at most once per failure, and at most
\* one body reaches the sink (stated for sinks that accept every write).
C6_WriteHeaderOnce ==
    \A r \in Reqs :
        req[r].sinkOK =>
            /\ Len(TranslatorWriteHeaders(r)) <= 1
            /\ Len(TranslatorBody(r)) <= 1

\* C7: handleError emits at most one log record per failure (stated for
\* sinks that accept every write).
C7_AtMostOneLogRecord ==
    \A r \in Reqs : req[r].sinkOK => Len(TranslatorLog(r)) <= 1

\* C8: for a failure whose details serialize, handleError emits exactly the
\* one record with code, message, details and cause when the Error is marked
\* for logging, and no record at all otherwise.
C8_LoggedIffMarked ==
    \A r \in Reqs :
        (Done(r) /\ Fail(r).kind # "nil" /\ Marshalable(Narrowed(r))) =>
            TranslatorLog(r) =
                IF Narrowed(r).Log THEN <<ErrorRecord(Narrowed(r))>> ELSE <<>>

\* C9 as stated: every failure answered with a 5xx code leaves a log record.
C9_Every5xxLogged ==
    \A r \in Reqs :
        (Done(r) /\ Fail(r).kind # "nil"
                 /\ Narrowed(r).Code >= StatusInternalServerError) =>
            Len(TranslatorLog(r)) >= 1

\* C9 as amended: the catch-all and every Typed Error built with WithLog,
\* whatever its code, leave the record of the Log field; a Typed Error built
\* without WithLog, 5xx codes included, leaves no record when its response
\* was written at the first attempt.
C9_LoggedByMarkOnly ==
    \A r \in Reqs :
        (Done(r) /\ Fail(r).kind # "nil") =>
            /\ (Fail(r).kind = "plain" \/ Fail(r).typed.Log) =>
                  /\ Len(ErrorRecords(r)) = 1
                  /\ ErrorRecords(r)[1].code = Narrowed(r).Code
            /\ (IsTyped(Fail(r)) /\ ~Fail(r).typed.Log /\ werr[r] = Nil) =>
                  TranslatorLog(r) = <<>>

C9_Witness ==
    /\ Done(1) /\ Fail(1).kind = "typed"
    /\ Fail(1).typed.Code = StatusInternalServerError /\ ~Fail(1).typed.Log
    /\ Fail(1).typed.Err # Nil
    /\ sink[1].status = StatusInternalServerError /\ Len(sink[1].body) = 1
    /\ log[1] = <<>>

\* the handler of request r ran
IsHandlerEvent(t) == t.ev = "h"

\* C10: when the handler returns nil, ServeHTTP has called it exactly once
\* and has itself done nothing: no operation on the sink and no log record
\* come from handleError, and the sink holds what the handler wrote.
C10_NilIsLeftAlone ==
    \A r \in Reqs :
        (Done(r) /\ Fail(r).kind = "nil") =>
            /\ Len(SelectSeq(trace[r], IsHandlerEvent)) = 1
            /\ TranslatorOps(r) = <<>>
            /\ TranslatorLog(r) = <<>>
            /\ httpErr[r] = ZeroError
            /\ sink[r] =
                 IF req[r].writes = "none" THEN FreshSink
                 ELSE SinkWrite(SinkWriteHeader(FreshSink, StatusOK, "handler"),
                                OkChunk, req[r].sinkOK, "handler").sink

C10_Witness ==
    /\ Done(1) /\ Fail(1).kind = "nil" /\ req[1].writes = "ok" /\ req[1].sinkOK
    /\ sink[1].status = StatusOK /\ Len(sink[1].body) = 1
    /\ Len(handler) = 2

(* ----------------------- the access-log record ------------------------- *)

\* the status line the client gets: the status sent, or the 200 net/http
\* sends for a handler that returned without sending one
FinalStatus(s) == IF s.status = 0 THEN StatusOK ELSE s.status

\* the bytes of the response body: the lengths of the chunks the sink took
RECURSIVE BodyBytes(_)
BodyBytes(body) ==
    IF body = <<>> THEN 0 ELSE Len(Head(body).text) + BodyBytes(Tail(body))

IsAccessRecord(l) == l.src = "access"
AccessRecords(r) == SelectSeq(log[r], IsAccessRecord)

IsAccessLayer(l) == l.kind = "access"
\* the access-logging layers of the composed handler below the first n layers
AccessLayersBelow(n) ==
    Len(SelectSeq(SubSeq(handler, n + 1, Len(handler)), IsAccessLayer))

\* C11: once a request served through ServeHTTP is finished, every access
\* record of it holds the status the client received and the number of body
\* bytes the client received, whether the handler returned nil or a failure.
C11_AccessRecordMatchesResponse ==
    \A r \in Reqs :
        Done(r) =>
            \A i \in DOMAIN AccessRecords(r) :
                /\ AccessRecords(r)[i].status = FinalStatus(sink[r])
                /\ AccessRecords(r)[i].body_size = BodyBytes(sink[r].body)

\* C12: each access-logging layer emits exactly one record per request, none
\* before the handler it wraps has returned; what that handler returned
\* reaches ServeHTTP as it was; and up to that point nothing but the
\* innermost handler has operated on the sink.
C12_OneRecordAfterReturn ==
    \A r \in Reqs :
        /\ pc[r] = "call" => AccessRecords(r) = <<>>
        /\ pc[r] = "unwind" =>
              Len(AccessRecords(r)) = AccessLayersBelow(depth[r])
        /\ pc[r] \notin {"off", "call", "unwind"} =>
              Len(AccessRecords(r)) = AccessLayersBelow(0)
        /\ pc[r] \notin {"off", "call"} => ret[r] = Fail(r)
        /\ pc[r] \in {"call", "unwind"} =>
              /\ TranslatorOps(r) = <<>>
              /\ \A i \in DOMAIN sink[r].ops : sink[r].ops[i].who = "handler"
              /\ Len(sink[r].body) <= 1

C12_Witness ==
    /\ pc[1] = "handleError" /\ Fail(1).kind = "typed"
    /\ mws = <<"access">>
    /\ Len(AccessRecords(1)) = 1
    /\ sink[1] = FreshSink

\* the calls the sink received, as the caller made them
OpOfCall(c) == Op(c.op, "caller", IF c.op = "WriteHeader" THEN c.arg ELSE 0)

\* C13: after any sequence of Header().Set, WriteHeader and Write calls on
\* the wrapper, the sink it wraps has received exactly these calls in this
\* order and is in the state of a sink called directly (header, status,
\* Content-Type sent, body), and the last call returned to the caller what
\* the sink returned.
C13_WrapperObservesOnly ==
    /\ under = bare
    /\ got = want
    /\ under.ops = [i \in DOMAIN calls |-> OpOfCall(calls[i])]

C13_Witness ==
    /\ Len(calls) = 3
    /\ calls[1].op = "WriteHeader" /\ calls[1].arg = StatusNotFound
    /\ calls[2].op = "Write" /\ calls[2].ok
    /\ calls[3].op = "Write" /\ ~calls[3].ok
    /\ got.err # Nil /\ got.n = 0
    /\ under.status = StatusNotFound /\ Len(under.body) = 1
    /\ wrapper.statusCode = StatusNotFound

(* ------------------------- claims: body codec -------------------------- *)

Returned == rpc = "returned"
IsDecodeCall == rcall.fn \in {"ReadJSON", "ReadXML"}
FormatOf(fn) == IF fn = "ReadJSON" THEN "json" ELSE "xml"

\* the bytes of the stream are not one well-formed document of the format
Malformed(doc, fn) == doc.form # FormatOf(fn) \/ doc.tail # ""

\* what the decoder of the call reports for the reader
DecoderResult ==
    IF rcall.fn = "ReadJSON" THEN JSONDecode(rd, rcall.T) ELSE XMLDecode(rd, rcall.T)

\* the returned error is a Typed Error 400 of the call's format whose
\* details are the decoder's error, without cause and logging mark
Is400OfDecoder ==
    /\ rout.err.kind = "typed"
    /\ rout.err.typed.Code = StatusBadRequest
    /\ rout.err.typed.Message = InvalidBodyMsg(rcall.fn)
    /\ rout.err.typed.Details = DecoderResult.err
    /\ rout.err.typed.Details # Nil
    /\ rout.err.typed.Err = Nil
    /\ ~rout.err.typed.Log

\* C14: ReadJSON and ReadXML, given a readable stream whose bytes are not a
\* well-formed document of the format, return a Typed Error 400 with the
\* message of the format, the parse error as details, no cause and no
\* logging mark, and Validate has not been invoked.
C14_MalformedIs400 ==
    (Returned /\ IsDecodeCall /\ ~rd.fails /\ Malformed(rd.doc, rcall.fn)) =>
        /\ Is400OfDecoder
        /\ validations = <<>>

\* C15: after a decode without error into a type with Validate, Validate has
\* been invoked exactly once, on the decoded value, and the error of the call
\* is the validator's own error: a plain error with its text, no Typed Error,
\* and nil when the validator returned nil.
C15_ValidatorErrorAsIs ==
    (Returned /\ IsDecodeCall /\ DecoderResult.err = Nil /\ HasValidator(rcall.T)) =>
        LET decoded == Stored(rd.doc.fields)
        IN /\ validations = <<decoded>>
           /\ rout.err =
                IF decoded.Name = "" THEN PlainFailure("name is required")
                ELSE IF decoded.Email = "" THEN PlainFailure("email is required")
                ELSE NoFailure

C15_Witness ==
    /\ Returned /\ rcall = [fn |-> "ReadXML", T |-> "*validatingStruct"]
    /\ rd.doc.form = "xml" /\ rd.doc.fields.name = "John"
    /\ rd.doc.fields.email = Absent
    /\ Len(validations) = 1
    /\ rout.err.kind = "plain" /\ rout.err.text = "email is required"

\* C16: when Validate was invoked and returned nil, the value the call
\* returns is the value after validation: a negative decoded age is returned
\* as 0, and name, email and a non-negative age are as decoded.
C16_PostValidationValue ==
    (Returned /\ IsDecodeCall /\ DecoderResult.err = Nil /\ HasValidator(rcall.T)
              /\ rout.err = NoFailure) =>
        LET decoded == Stored(rd.doc.fields)
        IN /\ rout.value.Name = decoded.Name
           /\ rout.value.Email = decoded.Email
           /\ rout.value.Age = (IF decoded.Age < 0 THEN 0 ELSE decoded.Age)
           /\ rout.value = v

C16_Witness ==
    /\ Returned /\ rcall = [fn |-> "ReadJSON", T |-> "*validatingStruct"]
    /\ rd.doc.fields.age = "-5"
    /\ validations = <<[Name |-> "John", Email |-> "john@example.com", Age |-> -5]>>
    /\ rout.err = NoFailure
    /\ rout.value = [Name |-> "John", Email |-> "john@example.com", Age |-> 0]

\* C17: ReadBytes returns the bytes of the stream as they are and no error
\* when reading succeeds, the empty stream included; when reading fails it
\* returns a Typed Error 400 whose details are the read error; nothing is
\* decoded and Validate is not invoked.
C17_ReadBytes ==
    (Returned /\ rcall.fn = "ReadBytes") =>
        /\ ~rd.fails =>
              /\ rout.err = NoFailure
              /\ rout.value = [bytes |-> Bytes(rd.doc)]
              /\ rd.doc.form = "empty" => rout.value.bytes = ""
        /\ rd.fails =>
              /\ rout.err.kind = "typed"
              /\ rout.err.typed.Code = StatusBadRequest
              /\ rout.err.typed.Details = ReadError
        /\ v = NilPtr
        /\ validations = <<>>

C17_Witness ==
    /\ Returned /\ rcall.fn = "ReadBytes" /\ rd.fails
    /\ rd.doc.form = "json"
    /\ rout.err.kind = "typed" /\ rout.err.typed.Details = ReadError
    /\ rout.value = NilPtr

(* --------------------------- claims: NewError -------------------------- *)

\* the options of a list that are made by the constructor named opt
OfKind(opts, opt) == {i \in DOMAIN opts : opts[i].opt = opt}
Last(S) == CHOOSE i \in S : \A j \in S : j <= i

\* the argument of the last option of that constructor, nil without one
LastArg(opts, opt) ==
    IF OfKind(opts, opt) = {} THEN Nil ELSE opts[Last(OfKind(opts, opt))].arg

\* the options in order, one after the other, from the struct NewError makes
RECURSIVE Folded(_, _)
Folded(e, opts) ==
    IF opts = <<>> THEN e ELSE Folded(ApplyOption(e, Head(opts)), Tail(opts))

\* a list with the options at i and i + 1 in each other's place
Swapped(opts, i) ==
    [j \in DOMAIN opts |->
        IF j = i THEN opts[i + 1] ELSE IF j = i + 1 THEN opts[i] ELSE opts[j]]

\* C18: while NewError runs, err is {code, message, no details, no cause,
\* Log false} with the options applied so far in argument order, and code
\* and message are the arguments throughout; what it returns has the
\* details of the last WithDetails, the cause of the last WithInternalError
\* (nil without one) and Log set exactly when WithLog was passed, and is
\* what any list gives that differs by the order of two neighbouring options
\* for different fields.
C18_OptionsInOrder ==
    /\ npc \in {"loop", "returned"} =>
          /\ newErr = Folded([Code |-> nargs.code, Message |-> nargs.message,
                              Details |-> Nil, Err |-> Nil, Log |-> FALSE],
                             SubSeq(nargs.opts, 1, napplied))
          /\ newErr.Code = nargs.code
          /\ newErr.Message = nargs.message
    /\ npc = "returned" =>
          /\ napplied = Len(nargs.opts)
          /\ newErr.Details = LastArg(nargs.opts, "WithDetails")
          /\ newErr.Err = LastArg(nargs.opts, "WithInternalError")
          /\ newErr.Log = (OfKind(nargs.opts, "WithLog") # {})
          /\ \A i \in 1..(Len(nargs.opts) - 1) :
                nargs.opts[i].opt # nargs.opts[i + 1].opt =>
                    newErr = Folded(NewError(nargs.code, nargs.message),
                                    Swapped(nargs.opts, i))

C18_Witness ==
    /\ npc = "returned"
    /\ nargs.opts = <<[opt |-> "WithDetails", arg |-> "first"],
                      [opt |-> "WithLog", arg |-> Nil],
                      [opt |-> "WithDetails", arg |-> "second"]>>
    /\ newErr = [Code |-> nargs.code, Message |-> nargs.message,
                 Details |-> "second", Err |-> Nil, Log |-> TRUE]

(* ----------------------- claims: request parameters -------------------- *)

\* the text holds sub as a run of consecutive characters
Contains(text, sub) ==
    \E i \in 0..(Len(text) - Len(sub)) : SubSeq(text, i + 1, i + Len(sub)) = sub

\* the name has no value in the query string, or its first value is empty
Missing == query[pname] = <<>> \/ query[pname][1] = ""

ContentTypeOf(a) ==
    IF a.fn = "WriteJSON" THEN ContentTypeJSON
    ELSE IF a.fn = "WriteXML" THEN ContentTypeXML
    ELSE a.contentType

\* C20: a call of WriteJSON, WriteXML, WriteBytes or WriteFromReader on a
\* fresh sink has issued Header().Set first, WriteHeader(code) second and
\* only Writes after that; the sink reports the code as its status and the
\* Content-Type of the format, or the one passed in, as the one sent with
\* it, whether or not body bytes were written and whatever error the call
\* returned.
C20_HeaderStatusBody ==
    wpc = "returned" =>
        /\ Len(rec.ops) >= 2
        /\ rec.ops[1] = Op("Header.Set", "caller", 0)
        /\ rec.ops[2] = Op("WriteHeader", "caller", wargs.code)
        /\ \A i \in 3..Len(rec.ops) : rec.ops[i].op = "Write"
        /\ rec.status = wargs.code
        /\ rec.sent = ContentTypeOf(wargs)
        /\ rec.header = ContentTypeOf(wargs)

C20_Witness ==
    /\ wpc = "returned"
    /\ wargs.fn = "WriteFromReader" /\ wargs.code = StatusNotFound
    /\ wargs.contentType = "text/csv"
    /\ Len(rec.body) = 1 /\ rec.body[1].text = "Hello, World!"
    /\ rec.status = StatusNotFound /\ rec.sent = "text/csv"
    /\ wret = Nil

(* -------------------- claims: requests served at once ------------------ *)

\* what the layers inside the access logger did on the sink of request r
ByHandler(o) == o.who = "handler"
IsWriteHeaderByHandler(o) == o.who = "handler" /\ o.op = "WriteHeader"
HandlerBody(r) == SelectSeq(sink[r].body, ByHandler)
\* the status these layers sent: that of their WriteHeader, else the
\* implicit 200
HandlerStatus(r) ==
    LET ws == SelectSeq(sink[r].ops, IsWriteHeaderByHandler)
    IN IF ws = <<>> THEN StatusOK ELSE ws[1].code

\* the access-logging layers among the first n layers of the composed handler
AccessLayersWithin(n) == Len(SelectSeq(SubSeq(handler, 1, n), IsAccessLayer))

\* in every state of two requests served at once by one composed handler:
\* each request has one wrapper of its own per access layer it has entered,
\* each wrapper holds status and byte count of the writes made on the sink
\* of its own request, and so does each access record once logged
SharedState ==
    \A r \in Reqs :
        /\ pc[r] \in {"call", "unwind"} =>
              /\ Len(arws[r]) = AccessLayersWithin(depth[r])
              /\ \A i \in DOMAIN arws[r] :
                    /\ arws[r][i].statusCode = FinalStatus(sink[r])
                    /\ arws[r][i].bodySize = BodyBytes(sink[r].body)
              /\ \A i \in DOMAIN AccessRecords(r) :
                    /\ AccessRecords(r)[i].status = FinalStatus(sink[r])
                    /\ AccessRecords(r)[i].body_size = BodyBytes(sink[r].body)
        /\ \A i \in DOMAIN AccessRecords(r) :
              /\ AccessRecords(r)[i].status = HandlerStatus(r)
              /\ AccessRecords(r)[i].body_size = BodyBytes(HandlerBody(r))

\* C21: one composed handler serves two requests at once without
\* synchronization: no step taken while serving changes the composed chain
\* or the list it was built from, every request has wrappers of its own, and
\* under every interleaving the status and byte count a wrapper records and
\* the access logger logs for a request are those of the writes made through
\* it for that request, whatever the other request does meanwhile.
C21_SharedHandler ==
    /\ []SharedState
    /\ [][phase = "serving" => (handler' = handler /\ mws' = mws /\ phase' = phase)]_vars

\* request 1 has written through its wrapper and is unwinding while request
\* 2, which has not written yet, is between the access layer and its handler
C21_Witness ==
    /\ phase = "serving" /\ \E i \in DOMAIN handler : IsAccessLayer(handler[i])
    /\ pc[1] = "unwind" /\ arws[1] # <<>> /\ arws[1][1].bodySize > 0
    /\ pc[2] = "call" /\ arws[2] # <<>> /\ arws[2][1].bodySize = 0
    /\ req[2].writes = "ok"

(* ------------------ claims: the Error handleError is given ------------- *)

\* handleError has passed its WriteJSON calls for request r
Answered(r) == pc[r] \in {"log", "done"}

\* C22: handleError leaves Code, Message, Err and Log of the Typed Error it
\* is given as they were; Details differs afterwards only if serializing
\* the Details failed, and is then the sentinel string; an Error whose first
\* serialization succeeded is afterwards equal to what was given, so that
\* reusing it for a later request yields the same response.
C22_TypedErrorUnchanged ==
    \A r \in Reqs :
        (IsTyped(Fail(r)) /\ Answered(r)) =>
            LET given == Fail(r).typed
                after == httpErr[r]
            IN /\ after.Code = given.Code
               /\ after.Message = given.Message
               /\ after.Err = given.Err
               /\ after.Log = given.Log
               /\ after.Details # given.Details =>
                     (~Marshalable(given) /\ after.Details = FailedMsg)
               /\ Marshalable(given) => after = given

(* --------------------- claims: the wrapper's counters ------------------ *)

\* the byte count the sink reported for a call: that of an accepted Write
Reported(c) == IF c.op = "Write" /\ c.ok THEN Len(c.arg) ELSE 0

RECURSIVE ReportedBytes(_)
ReportedBytes(cs) ==
    IF cs = <<>> THEN 0 ELSE Reported(Head(cs)) + ReportedBytes(Tail(cs))

\* C23: after any sequence of calls on the wrapper, its bodySize is the sum
\* of the byte counts the sink reported for the Write calls (0 for one that
\* returned an error), and its statusCode is the status the sink sent: 200
\* if none was sent by a WriteHeader, otherwise the status in effect on the
\* sink.
C23_CountersMatchSink ==
    /\ wrapper.bodySize = ReportedBytes(calls)
    /\ wrapper.statusCode = FinalStatus(under)

(* ----------------------- claims: composition --------------------------- *)

\* the layers, or layer events, by middleware: the place a middleware had in
\* the list of its WithMiddlewares call is left out
Kinds(t) == [i \in DOMAIN t |-> [t[i] EXCEPT !.idx = 0]]

\* C24: a handler composed by h.WithMiddlewares() and h itself, and a
\* handler composed by h.WithMiddlewares(m1..., m2...) and
\* h.WithMiddlewares(m2...).WithMiddlewares(m1...), for every way of
\* splitting the list, consist of the same layers in the same order, and
\* the same request served by each runs the layers and the handler in the
\* same order and ends with the same response, returned error, translated
\* Error and log records.
C24_Composition ==
    parts.how # "none" =>
        /\ Kinds(twin) = Kinds(handler)
        /\ (Done(1) /\ Done(2)) =>
              /\ Kinds(trace[2]) = Kinds(trace[1])
              /\ sink[2] = sink[1]
              /\ ret[2] = ret[1]
              /\ httpErr[2] = httpErr[1]
              /\ log[2] = log[1]

C24_Witness ==
    /\ Done(1) /\ Done(2)
    /\ mws = <<"access", "tag">>
    /\ parts = [how |-> "split", k |-> 1]
    /\ Len(trace[2]) = 5
    /\ Len(log[2]) = 1

(* --------------------- claims: the Validator capability ---------------- *)

\* C25: ReadJSON[T] / ReadXML[T] invoke Validate if and only if T itself
\* has Validate in its method set (and the decoder reported no error), and
\* then once, on the decoded value: for T = *validatingStruct the result is
\* what Validate gives; for T = validatingStruct, whose Validate has a
\* pointer receiver, the decoded value is returned without error and
\* Validate is not invoked, also when Validate would reject the value.
C25_ValidatorOfT ==
    (Returned /\ IsDecodeCall) =>
        LET decoded == DecoderResult
        IN /\ validations # <<>> <=> (HasValidator(rcall.T) /\ decoded.err = Nil)
           /\ Len(validations) <= 1
           /\ (rcall.T = "*validatingStruct" /\ decoded.err = Nil) =>
                 /\ validations = <<decoded.v>>
                 /\ (rout.err = NoFailure) <=> (Validate(decoded.v).err = Nil)
           /\ (rcall.T = "validatingStruct" /\ decoded.err = Nil) =>
                 /\ validations = <<>>
                 /\ rout.err = NoFailure
                 /\ rout.value = decoded.v

\* ReadJSON[validatingStruct] of {"age":-5}: no name, no email, and no error
C25_Witness ==
    /\ Returned /\ rcall = [fn |-> "ReadJSON", T |-> "validatingStruct"]
    /\ ~rd.fails /\ rd.doc.form = "json"
    /\ rd.doc.fields = [name |-> Absent, email |-> Absent, age |-> "-5"]
    /\ Validate(rout.value).err = "name is required"
    /\ rout.err = NoFailure /\ rout.value.Age = -5
    /\ validations = <<>>

(* ------------------ claims: a failed validation, answered -------------- *)

\* Validate was invoked for the request's body and returned an error
ValidationFailed == validations # <<>> /\ Validate(validations[1]).err # Nil
\* the message of that error
ValidatorMessage == Validate(validations[1]).err

ClientErrors == 400..499

\* C26: when the handler returns the error ReadJSON / ReadXML returned and
\* that error came from Validate and is not a Typed Error, the response has
\* status 500; a sink accepting the write gets one JSON body with code 500
\* and message "Unexpected error occurred" in which the validator's message
\* does not occur; one error record is logged, carrying that message. The
\* response has a 4xx status only when the returned error is a Typed Error
\* with that code, which an error of these validators never is.
C26_ValidationFailureIs500 ==
    Done(1) =>
        /\ (ValidationFailed /\ ~IsTyped(ret[1])) =>
              /\ ret[1] = PlainFailure(ValidatorMessage)
              /\ sink[1].status = StatusInternalServerError
              /\ TranslatorWriteHeaders(1)[1].code = StatusInternalServerError
              /\ req[1].sinkOK =>
                    /\ Len(sink[1].body) = 1
                    /\ sink[1].body[1].json =
                          [code |-> StatusInternalServerError,
                           message |-> UnexpectedMsg]
                    /\ ~Contains(sink[1].body[1].text, ValidatorMessage)
              /\ Len(ErrorRecords(1)) = 1
              /\ ErrorRecords(1)[1].error = ValidatorMessage
        /\ sink[1].status \in ClientErrors =>
              /\ IsTyped(ret[1])
              /\ ret[1].typed.Code = sink[1].status
              /\ ~ValidationFailed

\* ReadJSON[*validatingStruct] of a body without name, answered with 500
C26_Witness ==
    /\ Done(1) /\ req[1].sinkOK
    /\ rcall = [fn |-> "ReadJSON", T |-> "*validatingStruct"]
    /\ ValidationFailed /\ ValidatorMessage = "name is required"
    /\ sink[1].status = StatusInternalServerError
    /\ Len(sink[1].body) = 1
    /\ Len(log[1]) = 1


====
